---- MODULE Spec2Model ----
(***************************************************************************)
(* GitLab Advanced Profiler (app.py): a Streamlit script that looks up a   *)
(* GitLab user, keeps a chat transcript and the selected user in           *)
(* st.session_state, and renders a profile card and project charts.        *)
(*                                                                         *)
(* One script run is one interaction.  A run reads three widget values     *)
(* (the chat prompt and the two buttons), and the session state; what it   *)
(* draws replaces the page of the previous run.  The script is modelled as *)
(* single-threaded and run-to-completion; display_project_visuals is       *)
(* modelled statement by statement (pc) because the lifetime of the        *)
(* matplotlib figure is a property of positions inside the loop.           *)
(*                                                                         *)
(* The three API helpers are modelled over the outcome of requests.get:    *)
(* a transport exception, or a response with a status code and a body.     *)
(* Response.raise_for_status raises HTTPError for 400 <= status < 600      *)
(* only; Response.json raises requests.exceptions.JSONDecodeError, a       *)
(* RequestException, on a body that is not JSON (requests >= 2.27).        *)
(***************************************************************************)
EXTENDS Integers, Sequences, FiniteSets, TLC

\* ------------------------------------------------------------------ bounds
MaxSubmissions == 2     \* username submissions per session
SessionProjects == 2    \* longest project list in the session specification
MaxProjects == 10       \* longest project list in the rendering specification

\* ------------------------------------------------------- program constants
Cap == 9                \* projects[:9]
GridCols == 3           \* st.columns(3)

Min(a, b) == IF a < b THEN a ELSE b

IsPrefix(s, t) == Len(s) <= Len(t) /\ SubSeq(t, 1, Len(s)) = s

\* -------------------------------------------------------------- JSON data
\* Python None
None == [t |-> "none"]
\* value of a script variable that no statement has assigned yet
Unset == [t |-> "unset"]
\* JSON null, and the NaN pandas puts where a row lacks a column
Null == [t |-> "null"]
NaN == [t |-> "nan"]

\* user objects of GET /api/v4/users
UserRecord(id, username, name) ==
    [t |-> "user", id |-> id, username |-> username, name |-> name]
Users == {UserRecord(1, "alice", "Alice A"), UserRecord(2, "bob", "Bob B")}
\* what the user may type into st.chat_input
Usernames == {"alice", "bob"}

\* bool(x) of the values the script tests: None, a user dict, a list, a dict
TruthyUser(x) == x.t = "user"
TruthySeq(s) == s /= <<>>
TruthyDict(d) == d /= {}

\* project objects of GET /api/v4/users/:id/projects?statistics=true; the
\* statistics field is absent, null, a dict without commit_count, or a dict
\* with it
ProjectBase(id) ==
    [id |-> id, name |-> <<"project", id>>,
     star_count |-> id % 3, forks_count |-> id % 2]
Project(id, kind) ==
    CASE kind = "absent" -> ProjectBase(id)
      [] kind = "null" -> ProjectBase(id) @@ [statistics |-> Null]
      [] kind = "nocommits" ->
            ProjectBase(id) @@ [statistics |-> [t |-> "dict", storage_size |-> 0]]
      [] kind = "commits" ->
            ProjectBase(id) @@
            [statistics |-> [t |-> "dict", storage_size |-> 0, commit_count |-> id + 1]]
\* statistics across a list: on no project, on every project, or mixed
StatKind(pattern, k) ==
    CASE pattern = "none" -> "absent"
      [] pattern = "all" -> "commits"
      [] pattern = "mixed" -> <<"null", "nocommits", "commits", "absent">>[(k % 4) + 1]
ProjectList(n, order, pattern) ==
    [k \in 1..n |-> Project(IF order = "asc" THEN k ELSE n + 1 - k, StatKind(pattern, k))]
\* the orders and statistics patterns the project lists are drawn from
Shapes ==
    {[order |-> "asc", pattern |-> "mixed"], [order |-> "desc", pattern |-> "none"],
     [order |-> "desc", pattern |-> "all"]}
ProjectLists(maxN) ==
    {ProjectList(n, sh.order, sh.pattern) : n \in 0..maxN, sh \in Shapes}

\* language objects of GET /api/v4/projects/:id/languages, as list(d.items())
LanguageMaps == {{}, {<<"Python", 60>>, <<"Go", 40>>}}

\* ------------------------------------------------------------ HTTP layer
TransportErrors == {"ConnectionError", "Timeout"}
\* requests.exceptions.RequestException and the subclasses that occur here
RequestException == TransportErrors \cup {"HTTPError", "JSONDecodeError"}
NoException == "NoException"
\* 200 OK; 300, a redirection requests does not follow; 404 and 500, errors
OkStatuses == {200}
OtherStatuses == {300, 404, 500}
NotJson == [json |-> FALSE]
JsonBody(v) == [json |-> TRUE, value |-> v]
\* outcomes of requests.get(api_url, headers=headers): a transport exception, a
\* 200 with any body, or another status with no JSON or with a payload of `sample`
Responses(values, sample) ==
    {[exc |-> e] : e \in TransportErrors}
    \cup {[status |-> s, body |-> b] :
            s \in OkStatuses, b \in {NotJson} \cup {JsonBody(v) : v \in values}}
    \cup {[status |-> s, body |-> b] :
            s \in OtherStatuses, b \in {NotJson} \cup {JsonBody(v) : v \in sample}}
UserArrays == {<<>>} \cup {<<u>> : u \in Users} \cup {<<u, v>> : u, v \in Users}
UserResponses == Responses(UserArrays, {<<u>> : u \in Users})
ProjectResponses(maxN) == Responses(ProjectLists(maxN), {ProjectList(1, "asc", "all")})
LanguageResponses == Responses(LanguageMaps, LanguageMaps \ {{}})

IsTransportError(resp) == "exc" \in DOMAIN resp

\* Response.raise_for_status(): HTTPError for client and server errors only
RaiseForStatus(status) == status >= 400 /\ status < 600

\* the exception the body of the try block raises, if any
\* (requests.get, raise_for_status, response.json, in that order)
TryBlock(resp) ==
    IF IsTransportError(resp) THEN resp.exc
    ELSE IF RaiseForStatus(resp.status) THEN "HTTPError"
    ELSE IF ~resp.body.json THEN "JSONDecodeError"
    ELSE NoException

\* except requests.exceptions.RequestException
ExceptClauseMut(e) == e \in TransportErrors
ExceptClause(e) == e \in RequestException

Return(v) == [raised |-> FALSE, value |-> v]
Raise(e) == [raised |-> TRUE, exc |-> e]

\* users[0] if users else None
FirstMatchMut(users) == IF TruthySeq(users) THEN users[Len(users)] ELSE None
FirstMatch(users) == IF TruthySeq(users) THEN users[1] ELSE None

fetch_gitlab_user(resp) ==
    LET e == TryBlock(resp) IN
    IF e = NoException THEN Return(FirstMatch(resp.body.value))
    ELSE IF ExceptClause(e) THEN Return(None)
    ELSE Raise(e)

fetch_user_projects(resp) ==
    LET e == TryBlock(resp) IN
    IF e = NoException THEN Return(resp.body.value)
    ELSE IF ExceptClause(e) THEN Return(<<>>)
    ELSE Raise(e)

get_project_languages(resp) ==
    LET e == TryBlock(resp) IN
    IF e = NoException THEN Return(resp.body.value)
    ELSE IF ExceptClause(e) THEN Return({})
    ELSE Raise(e)

\* ------------------------------------------------------------------ state
VARIABLES
    pc,            \* position of the script: "start", "idle", or a line of the loop
    messages,      \* st.session_state.messages
    user_data,     \* st.session_state.user_data
    lookup,        \* what the latest fetch_gitlab_user call returned (script user_data)
    profileView,   \* page: the card drawn by display_full_profile, or None
    visualsShown,  \* page: the "Project Visualizations" section is drawn
    notice,        \* page: the "No projects found" warning is drawn
    barChart,      \* page: rows of the frame given to st.bar_chart, <<>> if none
    cells,         \* page: per-project pie charts and text fallbacks, in drawing order
    projects,      \* script variable projects
    i,             \* 1-based position of the loop in projects[:9]
    col_idx,       \* script variable col_idx
    languages,     \* script variable languages
    fetched,       \* language requests issued by this run, in order, with their result
    openFigs,      \* matplotlib figures created and not yet closed (process-wide)
    crashed,       \* the latest run ended in an uncaught exception
    apiFn,         \* helper under test, API specification only
    apiResp,       \* outcome of requests.get handed to it
    apiRet         \* what the helper returned or raised

pageVars == <<profileView, visualsShown, notice, barChart, cells>>
loopVars == <<projects, i, col_idx, languages, fetched>>
sessionVars == <<messages, user_data, lookup>>
apiVars == <<apiFn, apiResp, apiRet>>
vars == <<pc, messages, user_data, lookup, profileView, visualsShown, notice, barChart,
          cells, projects, i, col_idx, languages, fetched, openFigs, crashed,
          apiFn, apiResp, apiRet>>

\* ------------------------------------------------------------- transcript
Greeting == <<"Hi there! Enter a GitLab username to begin profiling.">>
FoundText(u) ==
    <<"Found user ", u.name, " (", u.username, "). What would you like to see?">>
SorryText(prompt) ==
    <<"Sorry, I could not find a user with the username ", prompt>>

add_messageMut(msgs, role, content) ==
    <<[role |-> role, content |-> content]>> \o
        (IF msgs = <<>> THEN <<>> ELSE SubSeq(msgs, 1, Len(msgs) - 1))
add_message(msgs, role, content) == Append(msgs, [role |-> role, content |-> content])

\* if not st.session_state.messages: add_message("assistant", greeting)
Greet(msgs) == IF msgs = <<>> THEN add_message(msgs, "assistant", Greeting) ELSE msgs

\* st.session_state.user_data = None; ...; if user_data: st.session_state.user_data = user_data
SessionUserAfterLookupMut(prev, ret) == IF TruthyUser(ret) THEN ret ELSE prev
SessionUserAfterLookup(prev, ret) == IF TruthyUser(ret) THEN ret ELSE None

\* the assistant's answer to a lookup
Answer(prompt, ret) == IF TruthyUser(ret) THEN FoundText(ret) ELSE SorryText(prompt)

\* ------------------------------------------------------------- renderers
\* the identity fields display_full_profile draws
display_full_profile(user) ==
    [subheader |-> <<"Full Profile: ", user.name>>, username |-> user.username,
     id |-> user.id, json |-> user]

\* DataFrame(projects): a column for every key of any project, NaN where a row lacks it
HasColumn(projs, c) == \E k \in 1..Len(projs) : c \in DOMAIN projs[k]
ColumnValue(p, c) == IF c \in DOMAIN p THEN p[c] ELSE NaN

\* lambda x: x.get('commit_count', 0) if isinstance(x, dict) else 0
CommitCountMut(x) ==
    IF x.t = "dict" THEN (IF "commit_count" \in DOMAIN x THEN x.commit_count ELSE 1) ELSE 1
CommitCount(x) ==
    IF x.t = "dict" THEN (IF "commit_count" \in DOMAIN x THEN x.commit_count ELSE 0) ELSE 0

\* df_stats: name, star_count, forks_count, and commit_count if df has 'statistics'
StatsRow(projs, p) ==
    IF HasColumn(projs, "statistics")
    THEN [name |-> p.name, star_count |-> p.star_count, forks_count |-> p.forks_count,
          commit_count |-> CommitCount(ColumnValue(p, "statistics"))]
    ELSE [name |-> p.name, star_count |-> p.star_count, forks_count |-> p.forks_count]
df_stats(projs) == [k \in 1..Len(projs) |-> StatsRow(projs, projs[k])]

\* the series of a bar chart: the columns of df_stats.set_index('name')
Series(chart) == IF chart = <<>> THEN {} ELSE DOMAIN chart[1] \ {"name"}

\* projects[:9]
LoopProjectsMut(projs) == projs
LoopProjects(projs) == SubSeq(projs, 1, Min(Len(projs), Cap))

PieCell(p, langs, col) == [kind |-> "pie", title |-> p.name, slices |-> langs, col |-> col]
TextCell(p, col) ==
    [kind |-> "text", title |-> p.name, caption |-> "No language data available.", col |-> col]

\* if not projects: st.warning(...); return
StopsOnEmptyMut(projs) == FALSE
StopsOnEmpty(projs) == ~TruthySeq(projs)

\* if languages: (pie chart) else: (text fallback)
DrawsPieMut(langs) == TRUE
DrawsPie(langs) == TruthyDict(langs)

\* plt.subplots(...) and plt.close(fig) on the figure registry
SubplotsCount(n) == n + 1
CloseCountMut(n) == n
CloseCount(n) == n - 1

\* ---------------------------------------------------------------- actions
\* a new run starts from an empty page and fresh script variables
ClearPage ==
    /\ profileView' = None
    /\ visualsShown' = FALSE
    /\ notice' = FALSE
    /\ barChart' = <<>>
    /\ cells' = <<>>
ClearLoop ==
    /\ projects' = <<>>
    /\ i' = 0
    /\ col_idx' = 0
    /\ languages' = {}
    /\ fetched' = <<>>

\* the first run of a session: no widget has a value, the greeting is added
SessionStart ==
    /\ pc = "start"
    /\ messages' = Greet(messages)
    /\ pc' = "idle"
    /\ crashed' = FALSE
    /\ ClearPage /\ ClearLoop
    /\ UNCHANGED <<user_data, lookup, openFigs, apiVars>>

\* a run in which st.chat_input returns a prompt: the lookup, then st.rerun(),
\* whose run draws the transcript and (for a found user) the two buttons only
SubmitUsername ==
    /\ pc = "idle"
    /\ Len(messages) < 1 + 2 * MaxSubmissions
    /\ \E prompt \in Usernames, resp \in UserResponses :
         LET m0 == Greet(messages)
             m1 == add_message(m0, "user", <<prompt>>)
             ret == fetch_gitlab_user(resp)
         IN IF ret.raised
            THEN /\ messages' = m1
                 /\ user_data' = None
                 /\ lookup' = Unset
                 /\ crashed' = TRUE
            ELSE /\ messages' = add_message(m1, "assistant", Answer(prompt, ret.value))
                 /\ user_data' = SessionUserAfterLookup(user_data, ret.value)
                 /\ lookup' = ret.value
                 /\ crashed' = FALSE
    /\ pc' = "idle"
    /\ ClearPage /\ ClearLoop
    /\ UNCHANGED <<openFigs, apiVars>>

\* display_project_visuals(projs) up to the head of the loop
VisualsStart(projs) ==
    /\ visualsShown' = TRUE
    /\ projects' = projs
    /\ cells' = <<>>
    /\ fetched' = <<>>
    /\ languages' = {}
    /\ col_idx' = 0
    /\ IF StopsOnEmpty(projs)
       THEN /\ notice' = TRUE
            /\ barChart' = <<>>
            /\ i' = 0
            /\ pc' = "idle"
       ELSE /\ notice' = FALSE
            /\ barChart' = df_stats(projs)
            /\ i' = 1
            /\ pc' = IF LoopProjects(projs) = <<>> THEN "idle" ELSE "get_languages"

\* with col2: if st.button("View Project Visuals"): a second, independent if
VisualsHandlerRunsMut(viewProfile, viewVisuals) == viewVisuals /\ ~viewProfile
VisualsHandlerRuns(viewProfile, viewVisuals) == viewVisuals

\* a run in which the buttons return viewProfile and viewVisuals; the buttons
\* exist only while st.session_state.user_data is truthy
ButtonRunWith(maxN, viewProfile, viewVisuals) ==
    /\ pc = "idle"
    /\ TruthyUser(user_data)
    /\ messages' = Greet(messages)
    /\ profileView' = IF viewProfile THEN display_full_profile(user_data) ELSE None
    /\ IF VisualsHandlerRuns(viewProfile, viewVisuals)
       THEN \E resp \in ProjectResponses(maxN) :
              LET ret == fetch_user_projects(resp) IN
              IF ret.raised
              THEN /\ crashed' = TRUE
                   /\ pc' = "idle"
                   /\ visualsShown' = FALSE /\ notice' = FALSE
                   /\ barChart' = <<>> /\ cells' = <<>>
                   /\ ClearLoop
              ELSE /\ crashed' = FALSE
                   /\ VisualsStart(ret.value)
       ELSE /\ crashed' = FALSE
            /\ pc' = "idle"
            /\ visualsShown' = FALSE /\ notice' = FALSE
            /\ barChart' = <<>> /\ cells' = <<>>
            /\ ClearLoop
    /\ UNCHANGED <<user_data, lookup, openFigs, apiVars>>

\* a click (or several coalesced clicks) makes at least one button return True
ButtonRun(maxN) ==
    \E viewProfile, viewVisuals \in BOOLEAN :
        /\ viewProfile \/ viewVisuals
        /\ ButtonRunWith(maxN, viewProfile, viewVisuals)

SessionButtonRun == ButtonRun(SessionProjects)
RenderButtonRun == ButtonRun(MaxProjects)

\* col_idx = (col_idx + 1) % 3, and the next iteration or the end of the run
NextProject ==
    /\ col_idx' = (col_idx + 1) % GridCols
    /\ i' = i + 1
    /\ pc' = IF i + 1 > Len(LoopProjects(projects)) THEN "idle" ELSE "get_languages"

\* languages = get_project_languages(project['id']); if languages:
GetLanguages ==
    /\ pc = "get_languages"
    /\ \E resp \in LanguageResponses :
         LET ret == get_project_languages(resp) IN
         IF ret.raised
         THEN /\ crashed' = TRUE
              /\ pc' = "idle"
              /\ UNCHANGED <<languages, fetched>>
         ELSE /\ crashed' = FALSE
              /\ languages' = ret.value
              /\ fetched' = Append(fetched, [id |-> projects[i].id, languages |-> ret.value])
              /\ pc' = IF DrawsPie(ret.value) THEN "subplots" ELSE "fallback"
    /\ UNCHANGED <<sessionVars, pageVars, projects, i, col_idx, openFigs, apiVars>>

\* fig, ax = plt.subplots(figsize=(6, 6)); ax.pie(...); ax.set_title(...)
Subplots ==
    /\ pc = "subplots"
    /\ openFigs' = SubplotsCount(openFigs)
    /\ pc' = "pyplot"
    /\ UNCHANGED <<sessionVars, pageVars, loopVars, crashed, apiVars>>

\* st.pyplot(fig)
Pyplot ==
    /\ pc = "pyplot"
    /\ cells' = Append(cells, PieCell(projects[i], languages, col_idx))
    /\ pc' = "close"
    /\ UNCHANGED <<sessionVars, profileView, visualsShown, notice, barChart, loopVars,
                   openFigs, crashed, apiVars>>

\* plt.close(fig)
Close ==
    /\ pc = "close"
    /\ openFigs' = CloseCount(openFigs)
    /\ NextProject
    /\ UNCHANGED <<sessionVars, pageVars, projects, languages, fetched, crashed, apiVars>>

\* st.write(name); st.caption("No language data available.")
Fallback ==
    /\ pc = "fallback"
    /\ cells' = Append(cells, TextCell(projects[i], col_idx))
    /\ NextProject
    /\ UNCHANGED <<sessionVars, profileView, visualsShown, notice, barChart, projects,
                   languages, fetched, openFigs, crashed, apiVars>>

RenderStep == GetLanguages \/ Subplots \/ Pyplot \/ Close \/ Fallback

\* one call of a helper on one outcome of requests.get
CallFetchGitlabUser ==
    /\ apiFn = "fetch_gitlab_user" /\ apiRet = Unset
    /\ apiRet' = fetch_gitlab_user(apiResp)
    /\ UNCHANGED <<pc, sessionVars, pageVars, loopVars, openFigs, crashed, apiFn, apiResp>>
CallFetchUserProjects ==
    /\ apiFn = "fetch_user_projects" /\ apiRet = Unset
    /\ apiRet' = fetch_user_projects(apiResp)
    /\ UNCHANGED <<pc, sessionVars, pageVars, loopVars, openFigs, crashed, apiFn, apiResp>>
CallGetProjectLanguages ==
    /\ apiFn = "get_project_languages" /\ apiRet = Unset
    /\ apiRet' = get_project_languages(apiResp)
    /\ UNCHANGED <<pc, sessionVars, pageVars, loopVars, openFigs, crashed, apiFn, apiResp>>

\* --------------------------------------------------------- specifications
\* if "messages" not in st.session_state: ...; if "user_data" not in ...
InitSession ==
    /\ pc = "start"
    /\ messages = <<>>
    /\ user_data = None
    /\ lookup = Unset
    /\ profileView = None
    /\ visualsShown = FALSE
    /\ notice = FALSE
    /\ barChart = <<>>
    /\ cells = <<>>
    /\ projects = <<>>
    /\ i = 0
    /\ col_idx = 0
    /\ languages = {}
    /\ fetched = <<>>
    /\ openFigs = 0
    /\ crashed = FALSE

NoApiCall == apiFn = "none" /\ apiResp = Unset /\ apiRet = Unset

Init == InitSession /\ NoApiCall

Next == SessionStart \/ SubmitUsername \/ SessionButtonRun \/ RenderStep

\* a whole session: start, lookups, button runs on short project lists
Spec == Init /\ [][Next]_vars

\* the session after its first successful lookup, waiting for a trigger
SelectedUser == UserRecord(1, "alice", "Alice A")
InitRender ==
    /\ pc = "idle"
    /\ messages = add_message(add_message(Greet(<<>>), "user", <<"alice">>),
                              "assistant", Answer("alice", SelectedUser))
    /\ user_data = SelectedUser
    /\ lookup = SelectedUser
    /\ profileView = None
    /\ visualsShown = FALSE
    /\ notice = FALSE
    /\ barChart = <<>>
    /\ cells = <<>>
    /\ projects = <<>>
    /\ i = 0
    /\ col_idx = 0
    /\ languages = {}
    /\ fetched = <<>>
    /\ openFigs = 0
    /\ crashed = FALSE
    /\ NoApiCall

NextRender == RenderButtonRun \/ RenderStep

\* button runs of one selected user, on project lists longer than the cap
SpecRender == InitRender /\ [][NextRender]_vars

InitApi ==
    /\ InitSession
    /\ apiRet = Unset
    /\ \/ apiFn = "fetch_gitlab_user" /\ apiResp \in UserResponses
       \/ apiFn = "fetch_user_projects" /\ apiResp \in ProjectResponses(MaxProjects)
       \/ apiFn = "get_project_languages" /\ apiResp \in LanguageResponses

NextApi == CallFetchGitlabUser \/ CallFetchUserProjects \/ CallGetProjectLanguages

\* each helper applied to every outcome of its request
SpecApi == InitApi /\ [][NextApi]_vars

\* ---------------------------------------------------------------- helpers
IsErrorStatus(resp) == ~IsTransportError(resp) /\ resp.status >= 400 /\ resp.status < 600
Is2xx(resp) == ~IsTransportError(resp) /\ resp.status >= 200 /\ resp.status < 300
HasJson(resp) == ~IsTransportError(resp) /\ resp.body.json
Called(fn) == apiFn = fn /\ apiRet /= Unset
ProjectIds == [k \in 1..Len(projects) |-> projects[k].id]
FetchedIds == [k \in 1..Len(fetched) |-> fetched[k].id]
PassDone == pc = "idle" /\ visualsShown /\ ~crashed
HasStatistics(p) == "statistics" \in DOMAIN p
WellFormedCommits(p) ==
    HasStatistics(p) /\ p.statistics.t = "dict" /\ "commit_count" \in DOMAIN p.statistics

\* ------------------------------------------------------------------ claims

\* C1: after a username submission, st.session_state.user_data is the outcome
\* of that lookup alone: the record returned if it found a user, None if it
\* did not, whatever was selected before; and while user_data is None no
\* profile view and no visuals view is on the page and none is being drawn.
C1_LookupAloneDecidesUser ==
    /\ lookup /= Unset =>
         user_data = (IF lookup \in Users THEN lookup ELSE None)
    /\ user_data = None =>
         /\ profileView = None
         /\ ~visualsShown
         /\ pc \in {"start", "idle"}

\* C1 witness: a lookup that found nobody, after an earlier one had found a user
C1_NotFoundAfterFound ==
    /\ Len(messages) = 5
    /\ messages[3].content = FoundText(UserRecord(1, "alice", "Alice A"))
    /\ lookup = None
    /\ user_data = None

C3_NonSuccessIsEmpty ==
    /\ Called("fetch_user_projects") =>
         /\ ~apiRet.raised
         /\ (IsTransportError(apiResp) \/ ~Is2xx(apiResp)) => apiRet.value = <<>>
    /\ Called("get_project_languages") =>
         /\ ~apiRet.raised
         /\ (IsTransportError(apiResp) \/ ~Is2xx(apiResp)) => apiRet.value = {}

\* C3 (amended): fetch_user_projects and get_project_languages never raise; a
\* transport failure, a 4xx/5xx status or a body that is not JSON yields the
\* empty sequence, respectively the empty mapping, which is also what a
\* successful request with no data yields; any other response yields its body.
C3_FailSoftEmpty ==
    /\ Called("fetch_user_projects") =>
         /\ ~apiRet.raised
         /\ IF IsTransportError(apiResp) \/ IsErrorStatus(apiResp) \/ ~HasJson(apiResp)
            THEN apiRet.value = <<>>
            ELSE apiRet.value = apiResp.body.value
    /\ Called("get_project_languages") =>
         /\ ~apiRet.raised
         /\ IF IsTransportError(apiResp) \/ IsErrorStatus(apiResp) \/ ~HasJson(apiResp)
            THEN apiRet.value = {}
            ELSE apiRet.value = apiResp.body.value

\* C3 witness: a 500 that carries a project; the helper returned the empty list
C3_ServerErrorGivesEmpty ==
    /\ Called("fetch_user_projects")
    /\ ~IsTransportError(apiResp)
    /\ apiResp.status = 500
    /\ apiResp.body.json
    /\ apiResp.body.value /= <<>>
    /\ apiRet = Return(<<>>)

\* C4: in one pass over a non-empty list of n projects the language requests
\* issued are, in order, those of the first min(n, 9) projects, one each;
\* every project cell drawn belongs to one of them; the bar chart has a row
\* for each of the n projects.
C4_CapAndOrder ==
    LET n == Len(projects)
        want == SubSeq(ProjectIds, 1, Min(n, 9))
    IN /\ IsPrefix(FetchedIds, want)
       /\ Len(cells) <= Len(fetched)
       /\ (visualsShown /\ n > 0) =>
            /\ Len(barChart) = n
            /\ \A k \in 1..n : barChart[k].name = projects[k].name
       /\ (PassDone /\ n > 0) =>
            /\ FetchedIds = want
            /\ Len(cells) = Min(n, 9)

\* C4 witness: a finished pass over ten projects
C4_TenProjectsNineFetched ==
    /\ PassDone
    /\ Len(projects) = 10
    /\ Len(fetched) = 9
    /\ Len(barChart) = 10
    /\ projects[9].id /= 9

\* C5: at most one figure is open at any time, it is open only between its
\* creation and plt.close, and whenever the script is idle no figure is open,
\* however many passes have run.
C5_FigureClosedAfterDisplay ==
    /\ openFigs \in {0, 1}
    /\ openFigs = 1 <=> pc \in {"pyplot", "close"}
    /\ pc = "idle" => openFigs = 0

\* C5 witness: the second pie chart of a pass is displayed and not yet closed
C5_SecondFigureOpen ==
    /\ pc = "close"
    /\ openFigs = 1
    /\ Len(cells) >= 2
    /\ cells[1].kind = "pie"

\* C6 (as claimed): the bar chart of a non-empty list has the three series
\* star_count, forks_count and commit_count with one value per project, and
\* commit_count is 0 where statistics are absent or malformed, also when no
\* project carries statistics.
C6_ThreeSeriesAlways ==
    (visualsShown /\ projects /= <<>>) =>
        /\ Series(barChart) = {"star_count", "forks_count", "commit_count"}
        /\ Len(barChart) = Len(projects)
        /\ \A k \in 1..Len(projects) :
             ~WellFormedCommits(projects[k]) => barChart[k].commit_count = 0

\* C6 (amended): the bar chart of a non-empty list has the series star_count
\* and forks_count with one value per project; it has the series commit_count
\* exactly when at least one project carries a statistics field, and then
\* commit_count is the project's commit count, or 0 where its statistics are
\* absent or malformed.
C6_CommitSeriesIffStatistics ==
    (visualsShown /\ projects /= <<>>) =>
        LET anyStats == \E k \in 1..Len(projects) : HasStatistics(projects[k]) IN
        /\ Series(barChart) =
             {"star_count", "forks_count"} \cup (IF anyStats THEN {"commit_count"} ELSE {})
        /\ Len(barChart) = Len(projects)
        /\ \A k \in 1..Len(projects) :
             /\ barChart[k].star_count = projects[k].star_count
             /\ barChart[k].forks_count = projects[k].forks_count
             /\ anyStats =>
                  barChart[k].commit_count =
                     (IF WellFormedCommits(projects[k])
                      THEN projects[k].statistics.commit_count ELSE 0)

\* C6 witness: a chart over projects without statistics, with null statistics,
\* with statistics that lack commit_count, and with a commit count
C6_MixedStatistics ==
    /\ visualsShown
    /\ Len(projects) >= 4
    /\ "commit_count" \in Series(barChart)
    /\ \E a, b, c, d \in 1..Len(projects) :
         /\ ~HasStatistics(projects[a]) /\ barChart[a].commit_count = 0
         /\ HasStatistics(projects[b]) /\ projects[b].statistics = Null
         /\ barChart[b].commit_count = 0
         /\ HasStatistics(projects[c]) /\ projects[c].statistics.t = "dict"
         /\ ~WellFormedCommits(projects[c]) /\ barChart[c].commit_count = 0
         /\ WellFormedCommits(projects[d]) /\ barChart[d].commit_count > 0

C8_TranscriptAppendOnly ==
    [][/\ IsPrefix(messages, messages')
       /\ (SessionButtonRun \/ RenderStep) => messages' = messages]_vars

\* C8 witness: two lookups, one found and one not, and a view on the page
C8_LongTranscriptWithView ==
    /\ Len(messages) = 5
    /\ messages[1].content = Greeting
    /\ messages[2].role = "user"
    /\ messages[3].content = SorryText(messages[2].content[1])
    /\ user_data \in Users
    /\ messages[5].content = FoundText(user_data)
    /\ visualsShown

\* C9: a visuals view of an empty project list shows the notice and nothing
\* else: the pass is over, no language request was issued, no bar chart and
\* no project cell was drawn, no figure is open; and the notice is shown for
\* an empty list only.
C9_EmptyListStops ==
    /\ (visualsShown /\ projects = <<>>) =>
         /\ notice
         /\ pc = "idle"
         /\ fetched = <<>>
         /\ barChart = <<>>
         /\ cells = <<>>
         /\ openFigs = 0
    /\ notice => (visualsShown /\ projects = <<>>)

\* C9 witness: the notice on the page
C9_NoticeShown ==
    /\ visualsShown
    /\ notice
    /\ projects = <<>>
    /\ pc = "idle"

\* C10: the k-th project cell is a pie chart of the k-th project's languages
\* if the k-th language request returned a non-empty mapping and the text
\* fallback if it returned the empty one; the fallback opens no figure, the
\* run does not end in an exception, and a finished pass has a cell for each
\* of the first min(n, 9) projects.
C10_PieIffLanguages ==
    /\ ~crashed
    /\ pc = "fallback" => openFigs = 0
    /\ Len(cells) <= Len(fetched)
    /\ \A k \in 1..Len(cells) :
         /\ cells[k].title = projects[k].name
         /\ cells[k].kind = (IF fetched[k].languages /= {} THEN "pie" ELSE "text")
         /\ cells[k].kind = "pie" => cells[k].slices = fetched[k].languages
    /\ (PassDone /\ projects /= <<>>) =>
         /\ Len(cells) = Len(fetched)
         /\ Len(cells) = Min(Len(projects), 9)

\* C10 witness: a fallback in the middle of a pass, followed by a pie chart
C10_FallbackThenPie ==
    /\ PassDone
    /\ Len(cells) >= 3
    /\ cells[1].kind = "pie"
    /\ cells[2].kind = "text"
    /\ cells[3].kind = "pie"
====
